---- MODULE Spec2Model ----
(***************************************************************************)
(* The hangman client/server protocol of src/hangman: one server process,  *)
(* NumClients client processes, one mailbox in shared memory and the three *)
(* named semaphores srv_sem, clt_sem and ret_sem.                          *)
(*                                                                         *)
(* Granularity: a process step runs from one semaphore operation (or one   *)
(* blocking read of the terminal) to the next.  Strings are sequences of   *)
(* one-character strings.  The pointer fields the code never initialises   *)
(* (the next field of the last node of a word list, the game of a fresh    *)
(* session) are carried as "null"/"wild" and init = FALSE: using one is    *)
(* undefined behaviour and is a choice between the outcomes.               *)
(***************************************************************************)
EXTENDS Integers, Sequences, FiniteSets, TLC

\* ------------------------------------------------------------------ bounds
NumClients == 2

\* The server stops taking registrations once client_count reaches MaxSessions.
MaxSessions == 3

\* The number of requests a recording harness makes.
MaxLog == 6

\* The number of server processes that are started in all.
NumServers == 3

\* The longest line of a dictionary read, and the number of its lines.
MaxLineLen == 2

MaxLines == 3

\* ------------------------------------------------------- program constants
MAX_ERROR == 8

game_new == "game_new"
game_open == "game_open"
game_impossible == "game_impossible"
game_lost == "game_lost"
game_won == "game_won"

\* ------------------------------------------------------------------ inputs
Clients == 1..NumClients

\* The dictionaries the server is started with.
Pool == << <<"A">> >>

PoolsSingle == { << <<"A">>, <<"B", "A">> >>, << <<"A", " ", "B">> >> }

\* The dictionaries of the harness that plays without a record ...
PoolsGame == { << <<"A", "B">>, <<"A">> >>, << <<"A", " ", "A">> >>, << <<" ">> >> }

\* ... and of the harness that records.
PoolsScript == { << <<"C", "A", "T">> >>, << <<"A">>, <<"A">>, <<"B", "A">> >> }

VARIABLES
    words,         \* the server's word list: the values of its nodes
    shared,        \* struct shm, the mailbox
    srv_sem,       \* request pending
    clt_sem,       \* the gate
    ret_sem,       \* response ready
    words_tail,    \* next of the last node of the server's list words
    clients,       \* the server's list of struct client, head first
    client_count,
    s_pc,          \* where the server is
    s_caught_sig,  \* the server's caught_sig
    s_exit,        \* "none" until the server leaves its loop or bails out
    cl,            \* per client process: its locals and where it is
    mb_owner,      \* history: the client whose request is in the mailbox
    mb_result,     \* history: the number and game of the session as the last
                   \* dispatch left them, NoResult once a new request is written
    mb_phase,      \* history: "idle", "req" (a request is written), "resp" (it
                   \* was dispatched once), "stale" (a dispatch found no new
                   \* request)
    boot,          \* the named objects (shared memory and semaphores) and the
                   \* server processes that were started on them
    rd,            \* wordlist_read at work: the lines still to come, buf, ptr,
                   \* the list built so far and *n
    h              \* the test harness of the game functions: its clientno, the
                   \* letters it has guessed in the game it plays, and its
                   \* record of the requests sent and the responses seen

vars == <<shared, srv_sem, clt_sem, ret_sem, words, words_tail, clients, client_count,
          s_pc, s_caught_sig, s_exit, cl, mb_owner, mb_phase, mb_result, h, boot, rd>>

srv_vars == <<words, words_tail, clients, client_count, s_pc, s_caught_sig, s_exit, boot, rd>>

\* Everything but the named objects and the processes started on them.
play_vars == <<shared, srv_sem, clt_sem, ret_sem, words, words_tail, clients, client_count,
               s_pc, s_caught_sig, s_exit, cl, mb_owner, mb_phase, mb_result, h>>

\* ----------------------------------------------------------------- helpers
\* Line 57, set by wordlist_read: the number of words read.
wordcnt == Len(words)

\* The letters a player types at "Your guess?": those of the dictionary and
\* one that is in no word.
Letters ==
    ((UNION {{words[i][j] : j \in 1..Len(words[i])} : i \in 1..Len(words)}) \ {" "})
        \cup {"Z"}

\* wordlist_read and wordlist_copy never set the next field of the last node
\* of the list they build: what a walk to the end of the list finds there.
ListTails == {"null", "wild"}

RemoveAt(s, i) == [j \in 1..(Len(s) - 1) |-> IF j < i THEN s[j] ELSE s[j + 1]]

NoResult == [clientno |-> -1, game |-> <<>>]

\* The game of a session right after malloc: nothing is initialised.
NoGame == [init |-> FALSE, secret |-> <<>>, obscured |-> <<>>,
           status |-> game_new, errors |-> 0]

\* Obscure that masks the spaces too.
Obscure_all(secret) == [i \in 1..Len(secret) |-> "_"]

\* new_game, lines 226-238: the obscured buffer of a secret.
Obscure(secret) == [i \in 1..Len(secret) |-> IF secret[i] = " " THEN " " ELSE "_"]

\* new_game that leaves the drawn word in the session's list.
new_game_keeps(c, pos) ==
    IF c.gamecnt >= wordcnt
    THEN [c EXCEPT !.current_game.status = game_impossible]
    ELSE [c EXCEPT !.gamecnt = c.gamecnt + 1,
                   !.current_game = [init |-> TRUE,
                                     secret |-> c.words[pos + 1],
                                     obscured |-> Obscure(c.words[pos + 1]),
                                     status |-> game_open,
                                     errors |-> 0]]

\* new_game that counts a game although the pool is exhausted.
new_game_counts(c, pos) ==
    IF c.gamecnt >= wordcnt
    THEN [c EXCEPT !.current_game.status = game_impossible, !.gamecnt = c.gamecnt + 1]
    ELSE [c EXCEPT !.gamecnt = c.gamecnt + 1,
                   !.words = RemoveAt(c.words, pos + 1),
                   !.current_game = [init |-> TRUE,
                                     secret |-> c.words[pos + 1],
                                     obscured |-> Obscure(c.words[pos + 1]),
                                     status |-> game_open,
                                     errors |-> 0]]

\* new_game(c) with rand() % (wordcnt - gamecnt) = pos.
new_game(c, pos) ==
    IF c.gamecnt >= wordcnt
    THEN [c EXCEPT !.current_game.status = game_impossible]
    ELSE [c EXCEPT !.gamecnt = c.gamecnt + 1,
                   !.words = RemoveAt(c.words, pos + 1),
                   !.current_game = [init |-> TRUE,
                                     secret |-> c.words[pos + 1],
                                     obscured |-> Obscure(c.words[pos + 1]),
                                     status |-> game_open,
                                     errors |-> 0]]

\* Unmask that stops at the first position it unmasks.
Unmask_first(g, try) ==
    [i \in 1..Len(g.secret) |->
        IF g.secret[i] = try /\ \A j \in 1..(i - 1) : g.secret[j] # try
        THEN try ELSE g.obscured[i]]

\* The loop of calculate_results: the obscured buffer after the scan.
Unmask(g, try) ==
    [i \in 1..Len(g.secret) |-> IF g.secret[i] = try THEN try ELSE g.obscured[i]]

\* calculate_results that does not reveal the secret of a lost game.
calculate_results_no_reveal(c, try) ==
    LET g == c.current_game
        obs == Unmask(g, try)
        error == \A i \in 1..Len(g.secret) : g.secret[i] # try
        won == \A i \in 1..Len(g.secret) : obs[i] # "_"
    IN  IF won
        THEN [c EXCEPT !.current_game.obscured = obs,
                       !.current_game.status = game_won]
        ELSE IF ~error
        THEN [c EXCEPT !.current_game.obscured = obs]
        ELSE IF g.errors + 1 > MAX_ERROR
        THEN [c EXCEPT !.current_game.errors = g.errors + 1,
                       !.current_game.status = game_lost]
        ELSE [c EXCEPT !.current_game.obscured = obs,
                       !.current_game.errors = g.errors + 1]

\* calculate_results that looks for a win in the buffer as it was before the
\* scan.
calculate_results_stale_won(c, try) ==
    LET g == c.current_game
        obs == Unmask(g, try)
        error == \A i \in 1..Len(g.secret) : g.secret[i] # try
        won == \A i \in 1..Len(g.secret) : g.obscured[i] # "_"
    IN  IF won
        THEN [c EXCEPT !.current_game.obscured = obs,
                       !.current_game.status = game_won]
        ELSE IF ~error
        THEN [c EXCEPT !.current_game.obscured = obs]
        ELSE IF g.errors + 1 > MAX_ERROR
        THEN [c EXCEPT !.current_game.errors = g.errors + 1,
                       !.current_game.status = game_lost,
                       !.current_game.obscured = g.secret]
        ELSE [c EXCEPT !.current_game.obscured = obs,
                       !.current_game.errors = g.errors + 1]

\* calculate_results that counts a miss before it looks for a win.
calculate_results_miss_first(c, try) ==
    LET g == c.current_game
        obs == Unmask(g, try)
        error == \A i \in 1..Len(g.secret) : g.secret[i] # try
        won == \A i \in 1..Len(g.secret) : obs[i] # "_"
        errors == IF error THEN g.errors + 1 ELSE g.errors
    IN  IF error /\ errors > MAX_ERROR
        THEN [c EXCEPT !.current_game.errors = errors,
                       !.current_game.status = game_lost,
                       !.current_game.obscured = g.secret]
        ELSE IF won
        THEN [c EXCEPT !.current_game.obscured = obs,
                       !.current_game.errors = errors,
                       !.current_game.status = game_won]
        ELSE [c EXCEPT !.current_game.obscured = obs,
                       !.current_game.errors = errors]

\* calculate_results that loses at errors >= MAX_ERROR.
calculate_results_ge(c, try) ==
    LET g == c.current_game
        obs == Unmask(g, try)
        error == \A i \in 1..Len(g.secret) : g.secret[i] # try
        won == \A i \in 1..Len(g.secret) : obs[i] # "_"
    IN  IF won
        THEN [c EXCEPT !.current_game.obscured = obs,
                       !.current_game.status = game_won]
        ELSE IF ~error
        THEN [c EXCEPT !.current_game.obscured = obs]
        ELSE IF g.errors + 1 >= MAX_ERROR
        THEN [c EXCEPT !.current_game.errors = g.errors + 1,
                       !.current_game.status = game_lost,
                       !.current_game.obscured = g.secret]
        ELSE [c EXCEPT !.current_game.obscured = obs,
                       !.current_game.errors = g.errors + 1]

calculate_results(c, try) ==
    LET g == c.current_game
        obs == Unmask(g, try)
        error == \A i \in 1..Len(g.secret) : g.secret[i] # try
        won == \A i \in 1..Len(g.secret) : obs[i] # "_"
    IN  IF won
        THEN [c EXCEPT !.current_game.obscured = obs,
                       !.current_game.status = game_won]
        ELSE IF ~error
        THEN [c EXCEPT !.current_game.obscured = obs]
        ELSE IF g.errors + 1 > MAX_ERROR
        THEN [c EXCEPT !.current_game.errors = g.errors + 1,
                       !.current_game.status = game_lost,
                       !.current_game.obscured = g.secret]
        ELSE [c EXCEPT !.current_game.obscured = obs,
                       !.current_game.errors = g.errors + 1]

\* The position of the session with number n in the list, 0 if there is none.
Lookup(n) ==
    IF \E i \in 1..Len(clients) : clients[i].clientno = n
    THEN CHOOSE i \in 1..Len(clients) :
             /\ clients[i].clientno = n
             /\ \A j \in 1..(i - 1) : clients[j].clientno # n
    ELSE 0

\* Response without the store to shared->errors.
Response_no_errors(sh, c) ==
    [sh EXCEPT !.clientno = c.clientno,
               !.status = c.current_game.status,
               !.word = c.current_game.obscured]

\* Lines 424-427: what the server writes back into the mailbox.
Response(sh, c) ==
    [sh EXCEPT !.clientno = c.clientno,
               !.status = c.current_game.status,
               !.errors = c.current_game.errors,
               !.word = c.current_game.obscured]

\* NewClient numbered by the length of the list instead of client_count.
NewClient_by_length ==
    [clientno |-> Len(clients), words |-> words, gamecnt |-> 0,
     current_game |-> NoGame]

\* Lines 379-388: the session made for a request with clientno = -1.
NewClient ==
    [clientno |-> client_count, words |-> words, gamecnt |-> 0,
     current_game |-> NoGame]

\* ---------------------------------------------------------------- startup
Servers == 1..NumServers

\* hangman-common.h:18-21: the names of the shared memory and of the
\* semaphores srv_sem, clt_sem and ret_sem.
Names == {"shm", "srv", "clt", "ret"}

\* ------------------------------------------------------------- dictionary
\* toupper on the lower-case letters of the model.
Upper == [a |-> "A", b |-> "B", z |-> "Z"]

toupper(x) == IF x \in DOMAIN Upper THEN Upper[x] ELSE x

isalpha(x) == x \in DOMAIN Upper \/ \E k \in DOMAIN Upper : Upper[k] = x

\* MAXLINELEN, wordlist.c:16, scaled down: the size of buf.
BufLen == MaxLineLen + 3

\* The terminating null character of a C string.
NUL == "nul"

\* The characters of the dictionaries read: a lower-case and an upper-case
\* letter, a space and a digit.
Chars == {"a", "B", " ", "1"}

\* A line without its newline: up to MaxLineLen characters.
RECURSIVE LinesUpTo(_)
LinesUpTo(k) ==
    IF k = 0 THEN {<<>>}
    ELSE LinesUpTo(k - 1) \cup {Append(l, x) : l \in {m \in LinesUpTo(k - 1) : Len(m) = k - 1},
                                                x \in Chars}

DictLines == LinesUpTo(MaxLineLen)

\* The inputs: up to MaxLines lines.
RECURSIVE DictsUpTo(_)
DictsUpTo(k) ==
    IF k = 0 THEN {<<>>}
    ELSE DictsUpTo(k - 1) \cup {Append(d, l) : d \in {e \in DictsUpTo(k - 1) : Len(e) = k - 1},
                                                l \in DictLines}

\* Line 68: isalpha(*s) || *s == 0x20.
Kept(x) == isalpha(x) \/ x = " "

\* strcpy(curr->value, buf), line 77: the characters before the first NUL.
RECURSIVE CString(_, _)
CString(buf, i) ==
    IF i > Len(buf) \/ buf[i] = NUL THEN <<>> ELSE <<buf[i]>> \o CString(buf, i + 1)

\* Lines 62 and 64: fgets and buf[strcspn(buf, "\n")] = 0 on a line that fits:
\* the characters, then two NULs (the second is fgets's own), the rest of buf
\* as it was.
Fgets(buf, line) ==
    [i \in 1..BufLen |-> IF i <= Len(line) THEN line[i]
                          ELSE IF i <= Len(line) + 2 THEN NUL
                          ELSE buf[i]]

\* Lines 67-72, the loop while (*s != 0) with s and ptr as offsets into buf:
\* a character kept is written at ptr in upper case.  over: the loop has
\* written or read past the end of buf.
RECURSIVE Scan(_, _, _)
Scan(buf, s, ptr) ==
    IF s >= BufLen THEN [buf |-> buf, ptr |-> ptr, over |-> TRUE]
    ELSE IF buf[s + 1] = NUL THEN [buf |-> buf, ptr |-> ptr, over |-> FALSE]
    ELSE IF ~Kept(buf[s + 1]) THEN Scan(buf, s + 1, ptr)
    ELSE IF ptr >= BufLen THEN [buf |-> buf, ptr |-> ptr, over |-> TRUE]
    ELSE Scan([buf EXCEPT ![ptr + 1] = toupper(buf[s + 1])], s + 1, ptr + 1)

\* Lines 51-59: wordlist_read is entered with the lines of the input ahead.
RdStart(input) ==
    [pc |-> "read", input |-> input, lines |-> input,
     buf |-> [i \in 1..BufLen |-> NUL], ptr |-> 0, out |-> <<>>, n |-> 0]

\* The dictionary was read before the play begins; the play does not look
\* at how.
RdDone == [RdStart(<<>>) EXCEPT !.pc = "done"]

\* Lines 61-90, one pass of while (fgets(...) != NULL): a blank line is
\* skipped; any other is filtered by Scan from the ptr the last line left,
\* terminated at ptr, and buf from its start is appended as a new node.  A
\* write past the end of buf is undefined behaviour: the process dies, or
\* goes on with a stack that is no longer its own.
W_Line ==
    /\ rd.pc = "read"
    /\ rd.lines # <<>>
    /\ LET line == Head(rd.lines)
           got == Fgets(rd.buf, line)
           r == Scan(got, 0, rd.ptr)
       IN  IF line = <<>>
           THEN rd' = [rd EXCEPT !.lines = Tail(@), !.buf = got]
           ELSE IF r.over \/ r.ptr >= BufLen
           THEN \E outcome \in {"fault", "smashed"} :
                    rd' = [rd EXCEPT !.pc = outcome, !.lines = Tail(@)]
           ELSE LET done == [r.buf EXCEPT ![r.ptr + 1] = NUL]
                IN  rd' = [rd EXCEPT !.lines = Tail(@),
                                     !.buf = done,
                                     !.ptr = r.ptr,
                                     !.out = Append(@, CString(done, 1)),
                                     !.n = @ + 1]
    /\ UNCHANGED <<play_vars, boot>>

\* Line 61: fgets returns NULL at the end of the input; line 92.
W_Eof ==
    /\ rd.pc = "read"
    /\ rd.lines = <<>>
    /\ rd' = [rd EXCEPT !.pc = "done"]
    /\ UNCHANGED <<play_vars, boot>>

\* No name exists and no server process was started.  names[n] is the
\* process that created the object now linked under n (0: none), term[i] the
\* terminate flag of the shared memory process i created, inst[i].shm the
\* shared memory that process i has mapped, inst[i].late whether a server
\* process was in its loop when process i was started.
BootInit ==
    [names |-> [n \in Names |-> 0],
     term |-> [i \in Servers |-> FALSE],
     inst |-> [i \in Servers |-> [pc |-> "off", shm |-> 0, late |-> FALSE, failed |-> FALSE,
                               exit |-> "none"]]]

\* Server process 1 has set everything up and is in its loop; no other
\* server process is started.
BootRunning ==
    [BootInit EXCEPT !.names = [n \in Names |-> 1],
                     !.inst[1] = [pc |-> "loop", shm |-> 1, late |-> FALSE, failed |-> FALSE,
                                  exit |-> "none"]]

\* The server processes that are in their loop.
Serving == {i \in Servers : boot.inst[i].pc = "loop"}

\* Lines 343-359: shm_open(SHM_NAME, O_RDWR | O_CREAT), ftruncate, mmap.  An
\* object that exists under the name is opened, not refused.
B_ShmOpen(i) ==
    /\ boot.inst[i].pc = "off"
    /\ LET obj == IF boot.names["shm"] = 0 THEN i ELSE boot.names["shm"]
       IN  boot' = [boot EXCEPT !.names["shm"] = obj,
                                !.inst[i].shm = obj,
                                !.inst[i].late = (Serving # {}),
                                !.inst[i].pc = "srv"]
    /\ UNCHANGED <<play_vars, rd>>

\* Lines 361-364: one sem_open(name, O_CREAT | O_EXCL): it fails if the name
\* exists.
B_SemOpen(i) ==
    /\ boot.inst[i].pc \in {"srv", "clt", "ret"}
    /\ LET n == boot.inst[i].pc
           next == IF n = "srv" THEN "clt" ELSE IF n = "clt" THEN "ret" ELSE "check"
       IN  boot' = IF boot.names[n] = 0
                   THEN [boot EXCEPT !.names[n] = i, !.inst[i].pc = next]
                   ELSE [boot EXCEPT !.inst[i].failed = TRUE, !.inst[i].pc = next]
    /\ UNCHANGED <<play_vars, rd>>

\* free_resources, lines 149-186, of process i: terminate is set in the
\* shared memory it has mapped, and the four names are unlinked whoever
\* created the objects (semaphores_set is TRUE from line 361 on).
B_Free(i, code) ==
    [boot EXCEPT !.term[boot.inst[i].shm] = TRUE,
                 !.names = [n \in Names |-> 0],
                 !.inst[i].pc = "exited",
                 !.inst[i].exit = code]

\* Lines 365-367: bail_out if a sem_open failed, else the loop is entered.
B_Check(i) ==
    /\ boot.inst[i].pc = "check"
    /\ boot' = IF boot.inst[i].failed
               THEN B_Free(i, "failure")
               ELSE [boot EXCEPT !.inst[i].pc = "loop"]
    /\ UNCHANGED <<play_vars, rd>>

\* Lines 372 and 436-437: a signal ends the loop of a serving process.
B_Stop(i) ==
    /\ boot.inst[i].pc = "loop"
    /\ boot' = B_Free(i, "success")
    /\ UNCHANGED <<play_vars, rd>>

\* ------------------------------------------------------------------- Init
\* Lines 183-189: the locals of a client process when it enters its loop;
\* `sent` is history: the letters it has sent as guesses since its last New.
ClientInit ==
    [pc |-> "want", clientno |-> -1, game_status |-> game_new, c |-> "",
     tried_chars |-> {}, errors |-> 0, buf |-> <<>>, caught_sig |-> FALSE,
     exit |-> "none", sent |-> {}]

\* The system once the server has set up the mailbox and the semaphores
\* (lines 343-367) and the client processes in `started` have reached their
\* loop (line 191); the other client processes are never started.
InitWith(started, pools) ==
    /\ words \in pools
    /\ shared = [errors |-> 0, clientno |-> 0, status |-> game_new,
                 tried_char |-> "", word |-> <<>>, terminate |-> FALSE]
    /\ srv_sem = 0
    /\ clt_sem = 1
    /\ ret_sem = 0
    /\ words_tail \in ListTails
    /\ clients = <<>>
    /\ client_count = 0
    /\ s_pc = "loop"
    /\ s_caught_sig = FALSE
    /\ s_exit = "none"
    /\ cl = [c \in Clients |->
                IF c \in started THEN ClientInit ELSE [ClientInit EXCEPT !.pc = "absent"]]
    /\ mb_owner = 0
    /\ mb_phase = "idle"
    /\ mb_result = NoResult
    /\ h = [clientno |-> -1, tried |-> {}, sent |-> <<>>, seen |-> <<>>]

Init == InitWith(Clients, {Pool}) /\ boot = BootRunning /\ rd = RdDone

\* One client process alone with the server.
InitSingle == InitWith({1}, PoolsSingle) /\ boot = BootRunning /\ rd = RdDone

\* ---------------------------------------------------------------- client
\* exit(code): the process and its locals are gone.
Exited(code) == [ClientInit EXCEPT !.pc = "exited", !.exit = code]

\* The loop is left for free_resources(true) and exit(code); of the locals
\* only clientno is read from here on, the others are dropped.
Leave(r, code) == [ClientInit EXCEPT !.pc = "fr", !.clientno = r.clientno, !.exit = code]

\* `continue` or the end of the loop body: the test of while (caught_sig == 0)
\* and, in status Open, the prompt that follows it.  Leaving the loop leads to
\* free_resources(true) and return EXIT_SUCCESS.
ToLoop(r) ==
    IF r.caught_sig
    THEN Leave(r, "success")
    ELSE [r EXCEPT !.pc = IF r.game_status = game_open THEN "input" ELSE "want"]

\* The lines a player types at "Your guess?", without the newline: nothing,
\* a letter in either case, a digit, two letters.
Lines ==
    {<<>>, <<"1">>, <<"A", "B">>, <<"a", "a">>}
        \cup {<<x>> : x \in DOMAIN Upper}
        \cup {<<Upper[k]>> : k \in DOMAIN Upper}

\* Guess that does not look at the letters tried so far.
Guess_again(line, tried) ==
    LET c == IF line = <<>> THEN "\n" ELSE toupper(line[1])
    IN  [c |-> c, valid |-> Len(line) = 1 /\ isalpha(c)]

\* Lines 194-219 on the line read: c and whether the line is taken as a guess.
Guess(line, tried) ==
    LET c == IF line = <<>> THEN "\n" ELSE toupper(line[1])
    IN  [c |-> c, valid |-> Len(line) = 1 /\ isalpha(c) /\ c \notin tried]

\* Lines 192-223 with the line typed: fgets into buf, c = toupper(buf[0]),
\* the three checks with their `continue`, and the letter recorded.
C_Type(c) ==
    /\ cl[c].pc = "input"
    /\ \E line \in Lines :
           LET g == Guess(line, cl[c].tried_chars)
           IN  cl' = [cl EXCEPT ![c] =
                         IF g.valid
                         THEN [@ EXCEPT !.buf = line, !.c = g.c,
                                        !.tried_chars = @ \cup {g.c}, !.pc = "want"]
                         ELSE [@ EXCEPT !.buf = line, !.c = g.c]]
    /\ UNCHANGED <<shared, srv_sem, clt_sem, ret_sem, srv_vars, mb_owner, mb_phase, mb_result>>
    /\ UNCHANGED h

\* Lines 192-223: a letter not tried yet in this round is recorded.
C_Input(c) ==
    /\ cl[c].pc = "input"
    /\ \E l \in Letters \ cl[c].tried_chars :
           cl' = [cl EXCEPT ![c] = [@ EXCEPT !.c = l,
                                             !.tried_chars = @ \cup {l},
                                             !.pc = "want"]]
    /\ UNCHANGED <<shared, srv_sem, clt_sem, ret_sem, srv_vars, mb_owner, mb_phase, mb_result>>
    /\ UNCHANGED h

\* C_Acquire with a sem_wait that returns 0 although the semaphore is at 0.
C_Acquire_unguarded(c) ==
    /\ cl[c].pc = "want"
    /\ clt_sem' = IF clt_sem > 0 THEN clt_sem - 1 ELSE clt_sem
    /\ cl' = [cl EXCEPT ![c].pc = "gate"]
    /\ UNCHANGED <<shared, srv_sem, ret_sem, srv_vars, mb_owner, mb_phase, mb_result>>
    /\ UNCHANGED h

\* Line 226: sem_wait(clt_sem) returns 0.
C_Acquire(c) ==
    /\ cl[c].pc = "want"
    /\ clt_sem > 0
    /\ clt_sem' = clt_sem - 1
    /\ cl' = [cl EXCEPT ![c].pc = "gate"]
    /\ UNCHANGED <<shared, srv_sem, ret_sem, srv_vars, mb_owner, mb_phase, mb_result>>
    /\ UNCHANGED h

\* Request that always asks for a new game.
Request_new(sh, r) ==
    [sh EXCEPT !.status = game_new, !.clientno = r.clientno, !.tried_char = r.c]

\* Lines 236-238: the request the client writes.
Request(sh, r) ==
    [sh EXCEPT !.status = r.game_status, !.clientno = r.clientno, !.tried_char = r.c]

\* C_Send that gives the gate back before it exits on terminate.
C_Send_release(c) ==
    /\ cl[c].pc = "gate"
    /\ IF shared.terminate
       THEN /\ cl' = [cl EXCEPT ![c] = Exited("failure")]
            /\ clt_sem' = clt_sem + 1
            /\ UNCHANGED <<shared, srv_sem, mb_owner, mb_phase, mb_result>>
       ELSE /\ shared' = Request(shared, cl[c])
            /\ srv_sem' = srv_sem + 1
            /\ cl' = [cl EXCEPT ![c].pc = "wait_ret",
                                ![c].sent = IF cl[c].game_status = game_open
                                            THEN @ \cup {cl[c].c} ELSE {}]
            /\ mb_owner' = c
            /\ mb_phase' = "req"
            /\ mb_result' = NoResult
            /\ UNCHANGED clt_sem
    /\ UNCHANGED <<ret_sem, srv_vars, h>>

\* Lines 231-242: the terminate check, the request, sem_post(srv_sem).
C_Send(c) ==
    /\ cl[c].pc = "gate"
    /\ IF shared.terminate
       THEN /\ cl' = [cl EXCEPT ![c] = Exited("failure")]
            /\ UNCHANGED <<shared, srv_sem, mb_owner, mb_phase, mb_result>>
       ELSE /\ shared' = Request(shared, cl[c])
            /\ srv_sem' = srv_sem + 1
            /\ cl' = [cl EXCEPT ![c].pc = "wait_ret",
                                ![c].sent = IF cl[c].game_status = game_open
                                            THEN @ \cup {cl[c].c} ELSE {}]
            /\ mb_owner' = c
            /\ mb_phase' = "req"
            /\ mb_result' = NoResult
    /\ UNCHANGED <<clt_sem, ret_sem, srv_vars>>
    /\ UNCHANGED h

\* Line 246: sem_wait(ret_sem) returns 0.
C_WaitRet(c) ==
    /\ cl[c].pc = "wait_ret"
    /\ ret_sem > 0
    /\ ret_sem' = ret_sem - 1
    /\ cl' = [cl EXCEPT ![c].pc = "resp"]
    /\ UNCHANGED <<shared, srv_sem, clt_sem, srv_vars, mb_owner, mb_phase, mb_result>>
    /\ UNCHANGED h

\* Lines 254-257: what the client copies out of the mailbox.
CopyOut(r, sh) ==
    [r EXCEPT !.clientno = sh.clientno, !.buf = sh.word, !.errors = sh.errors,
              !.game_status = sh.status]

\* C_Release that treats Impossible as an error.
C_Release_fails(c) ==
    /\ cl[c].pc = "resp"
    /\ clt_sem' = clt_sem + 1
    /\ LET r == CopyOut(cl[c], shared)
       IN  cl' = [cl EXCEPT ![c] =
                     IF r.game_status = game_impossible
                     THEN Leave(r, "failure")
                     ELSE IF r.game_status = game_open
                     THEN ToLoop(r)
                     ELSE [r EXCEPT !.pc = "prompt"]]
    /\ UNCHANGED <<shared, srv_sem, ret_sem, srv_vars, mb_owner, mb_phase, mb_result>>
    /\ UNCHANGED h

\* Lines 254-300: copy the response, sem_post(clt_sem), then the outcome.
C_Release(c) ==
    /\ cl[c].pc = "resp"
    /\ clt_sem' = clt_sem + 1
    /\ LET r == CopyOut(cl[c], shared)
       IN  cl' = [cl EXCEPT ![c] =
                     IF r.game_status = game_impossible
                     THEN Leave(r, "success")
                     ELSE IF r.game_status = game_open
                     THEN ToLoop(r)
                     ELSE [r EXCEPT !.pc = "prompt"]]
    /\ UNCHANGED <<shared, srv_sem, ret_sem, srv_vars, mb_owner, mb_phase, mb_result>>
    /\ UNCHANGED h

\* Lines 288-298: the answer to "Press 'y' to start a new game".
C_Prompt(c) ==
    /\ cl[c].pc = "prompt"
    /\ \E yes \in BOOLEAN :
           cl' = [cl EXCEPT ![c] =
                     IF yes
                     THEN ToLoop([@ EXCEPT !.c = "y", !.game_status = game_new,
                                           !.tried_chars = {}, !.errors = 0])
                     ELSE Leave(@, "success")]
    /\ UNCHANGED <<shared, srv_sem, clt_sem, ret_sem, srv_vars, mb_owner, mb_phase, mb_result>>
    /\ UNCHANGED h

\* Lines 88-91: SIGINT or SIGTERM.  A call blocked in the kernel returns EINTR
\* (interrupted); a signal that arrives before the call only sets the flag.
C_Signal(c) ==
    /\ cl[c].pc \in {"input", "want", "gate", "wait_ret", "resp", "prompt", "fr"}
    /\ \E interrupted \in BOOLEAN :
         LET r == IF cl[c].pc = "fr" THEN cl[c] ELSE [cl[c] EXCEPT !.caught_sig = TRUE]
         IN  IF interrupted /\ r.pc \in {"input", "want"}
             THEN \* lines 195, 227: continue
                  /\ cl' = [cl EXCEPT ![c] = ToLoop(r)]
                  /\ UNCHANGED clt_sem
             ELSE IF interrupted /\ r.pc = "wait_ret"
             THEN \* lines 247-250: sem_post(clt_sem); continue
                  /\ cl' = [cl EXCEPT ![c] = ToLoop(r)]
                  /\ clt_sem' = clt_sem + 1
             ELSE IF interrupted /\ r.pc = "prompt"
             THEN \* line 289: ferror(stdin), bail_out(EXIT_FAILURE)
                  /\ cl' = [cl EXCEPT ![c] = Leave(r, "failure")]
                  /\ UNCHANGED clt_sem
             ELSE IF interrupted /\ r.pc = "fr"
             THEN \* lines 97-102: the notification is given up
                  /\ cl' = [cl EXCEPT ![c] = Exited(r.exit)]
                  /\ UNCHANGED clt_sem
             ELSE /\ cl' = [cl EXCEPT ![c] = r]
                  /\ UNCHANGED clt_sem
    /\ cl' # cl \/ clt_sem' # clt_sem
    /\ UNCHANGED <<shared, srv_sem, ret_sem, srv_vars, mb_owner, mb_phase, mb_result>>
    /\ UNCHANGED h

\* Line 97, free_resources(true): sem_wait(clt_sem) returns 0.
C_FrAcquire(c) ==
    /\ cl[c].pc = "fr"
    /\ clt_sem > 0
    /\ clt_sem' = clt_sem - 1
    /\ cl' = [cl EXCEPT ![c].pc = "fr_gate"]
    /\ UNCHANGED <<shared, srv_sem, ret_sem, srv_vars, mb_owner, mb_phase, mb_result>>
    /\ UNCHANGED h

\* C_FrNotify with a sem_post(clt_sem) by the departing client itself.
C_FrNotify_release(c) ==
    /\ cl[c].pc = "fr_gate"
    /\ shared' = [shared EXCEPT !.terminate = TRUE, !.clientno = cl[c].clientno]
    /\ srv_sem' = srv_sem + 1
    /\ clt_sem' = clt_sem + 1
    /\ cl' = [cl EXCEPT ![c] = Exited(cl[c].exit)]
    /\ mb_owner' = c
    /\ mb_phase' = "req"
    /\ mb_result' = NoResult
    /\ UNCHANGED <<ret_sem, srv_vars>>
    /\ UNCHANGED h

\* Lines 104-122: the departure notice, then the process ends.
C_FrNotify(c) ==
    /\ cl[c].pc = "fr_gate"
    /\ shared' = [shared EXCEPT !.terminate = TRUE, !.clientno = cl[c].clientno]
    /\ srv_sem' = srv_sem + 1
    /\ cl' = [cl EXCEPT ![c] = Exited(cl[c].exit)]
    /\ mb_owner' = c
    /\ mb_phase' = "req"
    /\ mb_result' = NoResult
    /\ UNCHANGED <<clt_sem, ret_sem, srv_vars>>
    /\ UNCHANGED h

\* ---------------------------------------------------------------- server
\* Line 372: the test of while (caught_sig == 0); line 436 and 152 after it.
S_Loop ==
    /\ s_pc = "loop"
    /\ IF s_caught_sig
       THEN /\ s_pc' = "shutdown"
            /\ s_exit' = "success"
            /\ shared' = [shared EXCEPT !.terminate = TRUE]
       ELSE /\ s_pc' = "wait"
            /\ UNCHANGED <<s_exit, shared>>
    /\ UNCHANGED <<srv_sem, clt_sem, ret_sem, words, words_tail, clients, client_count,
                   s_caught_sig, cl, mb_owner, mb_phase, mb_result>>
    /\ UNCHANGED <<h, boot, rd>>

\* S_Wait that takes the gate before it takes the request.
S_Wait_gate ==
    /\ s_pc = "wait"
    /\ srv_sem > 0
    /\ clt_sem > 0
    /\ srv_sem' = srv_sem - 1
    /\ clt_sem' = clt_sem - 1
    /\ s_pc' = "dispatch"
    /\ UNCHANGED <<shared, ret_sem, words, words_tail, clients, client_count,
                   s_caught_sig, s_exit, cl, mb_owner, mb_phase, mb_result>>
    /\ UNCHANGED <<h, boot, rd>>

\* Line 374: sem_wait(srv_sem) returns 0.
S_Wait ==
    /\ s_pc = "wait"
    /\ srv_sem > 0
    /\ srv_sem' = srv_sem - 1
    /\ s_pc' = "dispatch"
    /\ UNCHANGED <<shared, clt_sem, ret_sem, words, words_tail, clients, client_count,
                   s_caught_sig, s_exit, cl, mb_owner, mb_phase, mb_result>>
    /\ UNCHANGED <<h, boot, rd>>

\* S_Signal with an interrupted sem_wait(srv_sem) handed to bail_out.
S_Signal_fatal ==
    /\ s_pc \in {"loop", "wait", "dispatch"}
    /\ s_pc # "wait" => ~s_caught_sig
    /\ s_caught_sig' = TRUE
    /\ \E interrupted \in BOOLEAN :
           IF interrupted /\ s_pc = "wait"
           THEN /\ s_pc' = "shutdown"
                /\ s_exit' = "failure"
                /\ shared' = [shared EXCEPT !.terminate = TRUE]
           ELSE /\ s_caught_sig' # s_caught_sig
                /\ UNCHANGED <<s_pc, s_exit, shared>>
    /\ UNCHANGED <<srv_sem, clt_sem, ret_sem, words, words_tail, clients,
                   client_count, cl, mb_owner, mb_phase, mb_result>>
    /\ UNCHANGED <<h, boot, rd>>

\* Lines 188-191 and 374-375: a signal; a blocked sem_wait returns EINTR.
S_Signal ==
    /\ s_pc \in {"loop", "wait", "dispatch"}
    /\ s_pc # "wait" => ~s_caught_sig
    /\ s_caught_sig' = TRUE
    /\ \E interrupted \in BOOLEAN :
           s_pc' = IF interrupted /\ s_pc = "wait" THEN "loop" ELSE s_pc
    /\ s_caught_sig' # s_caught_sig \/ s_pc' # s_pc
    /\ UNCHANGED <<shared, srv_sem, clt_sem, ret_sem, words, words_tail, clients,
                   client_count, s_exit, cl, mb_owner, mb_phase, mb_result>>
    /\ UNCHANGED <<h, boot, rd>>

\* The server process dies on a fault: nothing is released.
Crash ==
    /\ s_pc' = "crashed"
    /\ clients' = <<>>
    /\ UNCHANGED <<shared, srv_sem, clt_sem, ret_sem, s_exit, mb_owner, mb_phase, mb_result>>

\* bail_out(EXIT_FAILURE, ...), lines 130-152: free_resources begins.
BailOut ==
    /\ s_pc' = "shutdown"
    /\ s_exit' = "failure"
    /\ shared' = [shared EXCEPT !.terminate = TRUE]
    /\ UNCHANGED <<srv_sem, clt_sem, ret_sem, mb_owner, mb_phase, mb_result>>

\* Terminate that leaves the terminate flag set.
Terminate_keeps_flag(list, i) ==
    \E tail \in ListTails :
        IF tail = "wild"
        THEN Crash
        ELSE /\ clients' = RemoveAt(list, i)
             /\ clt_sem' = clt_sem + 1
             /\ s_pc' = "loop"
             /\ mb_phase' = "idle"
             /\ UNCHANGED <<shared, srv_sem, ret_sem, s_exit, mb_owner, mb_result>>

\* Terminate that posts ret_sem where the code posts clt_sem.
Terminate_ret(list, i) ==
    \E tail \in ListTails :
        IF tail = "wild"
        THEN Crash
        ELSE /\ clients' = RemoveAt(list, i)
             /\ shared' = [shared EXCEPT !.terminate = FALSE]
             /\ ret_sem' = ret_sem + 1
             /\ s_pc' = "loop"
             /\ mb_phase' = "idle"
             /\ UNCHANGED <<srv_sem, clt_sem, s_exit, mb_owner, mb_result>>

\* Lines 398-414: the session cur (at position i of list) is unlinked and
\* freed; wordlist_free walks to the next field of the last node.
Terminate(list, i) ==
    \E tail \in ListTails :
        IF tail = "wild"
        THEN Crash
        ELSE /\ clients' = RemoveAt(list, i)
             /\ shared' = [shared EXCEPT !.terminate = FALSE]
             /\ clt_sem' = clt_sem + 1
             /\ s_pc' = "loop"
             /\ mb_phase' = "idle"
             /\ UNCHANGED <<srv_sem, ret_sem, s_exit, mb_owner, mb_result>>

\* Play on the head of the list instead of the session looked up.
Play_head(list, i) ==
    \E pos \in 0..(IF list[1].gamecnt < wordcnt THEN wordcnt - list[1].gamecnt - 1 ELSE 0),
       fault \in BOOLEAN :
        IF shared.status # game_new /\ ~list[1].current_game.init /\ fault
        THEN Crash
        ELSE LET cur == IF shared.status = game_new
                        THEN new_game(list[1], pos)
                        ELSE calculate_results(list[1], shared.tried_char)
             IN  /\ clients' = [list EXCEPT ![1] = cur]
                 /\ shared' = Response(shared, cur)
                 /\ ret_sem' = ret_sem + 1
                 /\ s_pc' = "loop"
                 /\ mb_phase' = IF mb_phase = "req" THEN "resp" ELSE "stale"
                 /\ mb_result' = [clientno |-> cur.clientno, game |-> cur.current_game]
                 /\ UNCHANGED <<srv_sem, clt_sem, s_exit, mb_owner>>

\* Lines 416-431: new_game or calculate_results on cur, the response and
\* sem_post(ret_sem).  calculate_results on a session that never had a game
\* reads the uninitialised secret pointer.
Play(list, i) ==
    \E pos \in 0..(IF list[i].gamecnt < wordcnt THEN wordcnt - list[i].gamecnt - 1 ELSE 0),
       fault \in BOOLEAN :
        IF shared.status # game_new /\ ~list[i].current_game.init /\ fault
        THEN Crash
        ELSE LET cur == IF shared.status = game_new
                        THEN new_game(list[i], pos)
                        ELSE calculate_results(list[i], shared.tried_char)
             IN  /\ clients' = [list EXCEPT ![i] = cur]
                 /\ shared' = Response(shared, cur)
                 /\ ret_sem' = ret_sem + 1
                 /\ s_pc' = "loop"
                 /\ mb_phase' = IF mb_phase = "req" THEN "resp" ELSE "stale"
                 /\ mb_result' = [clientno |-> cur.clientno, game |-> cur.current_game]
                 /\ UNCHANGED <<srv_sem, clt_sem, s_exit, mb_owner>>

\* Lines 379-431: one pass of the server loop after sem_wait(srv_sem).
S_Dispatch ==
    /\ s_pc = "dispatch"
    /\ IF shared.clientno = -1
       THEN IF words_tail = "wild"
            THEN \* wordlist_copy follows the wild next of the last node
                 /\ Crash
                 /\ UNCHANGED client_count
            ELSE /\ client_count < MaxSessions
                 /\ client_count' = client_count + 1
                 /\ LET list == <<NewClient>> \o clients
                    IN  IF shared.terminate THEN Terminate(list, 1) ELSE Play(list, 1)
       ELSE /\ UNCHANGED client_count
            /\ IF Lookup(shared.clientno) = 0
               THEN /\ BailOut
                    /\ UNCHANGED clients
               ELSE IF shared.terminate
                    THEN Terminate(clients, Lookup(shared.clientno))
                    ELSE Play(clients, Lookup(shared.clientno))
    /\ UNCHANGED <<words, words_tail, s_caught_sig, cl>>
    /\ UNCHANGED <<h, boot, rd>>

\* Lines 157-168, one pass of the loop of free_resources.
S_FreeOne ==
    /\ s_pc = "shutdown"
    /\ clients # <<>>
    /\ \E tail \in ListTails :
           IF tail = "wild"
           THEN /\ s_pc' = "crashed"
                /\ clients' = <<>>
                /\ UNCHANGED clt_sem
           ELSE /\ clients' = Tail(clients)
                /\ clt_sem' = clt_sem + 1
                /\ UNCHANGED s_pc
    /\ UNCHANGED <<shared, srv_sem, ret_sem, words, words_tail, client_count,
                   s_caught_sig, s_exit, cl, mb_owner, mb_phase, mb_result>>
    /\ UNCHANGED <<h, boot, rd>>

\* Lines 170-185 and exit.
S_Exit ==
    /\ s_pc = "shutdown"
    /\ clients = <<>>
    /\ s_pc' = "exited"
    /\ UNCHANGED <<shared, srv_sem, clt_sem, ret_sem, words, words_tail, clients,
                   client_count, s_caught_sig, s_exit, cl, mb_owner, mb_phase, mb_result>>
    /\ UNCHANGED <<h, boot, rd>>

\* --------------------------------------------------------------- harness
\* One player alone with the server whose terminal checks are lifted: after
\* its first request (New, clientno -1, hangman-client.c:183-187, 236-238) it
\* may ask for a new game or guess any letter at any time, a letter tried
\* before included.  The server takes every such request the same way
\* whoever wrote it (hangman-server.c:416-422).
\* Lines 226-240: the gate, the request, sem_post(srv_sem).  With `logging`
\* the request is recorded, and no more than MaxLog requests are made.
H_Request(logging) ==
    /\ clt_sem > 0
    /\ ~shared.terminate
    /\ logging => Len(h.sent) < MaxLog
    /\ \E new \in BOOLEAN, l \in Letters :
           LET st == IF new \/ h.clientno = -1 THEN game_new ELSE game_open
               c == IF st # game_new THEN l ELSE IF h.clientno = -1 THEN "" ELSE "y"
           IN  /\ new => l = CHOOSE x \in Letters : TRUE
               /\ shared' = [shared EXCEPT !.status = st, !.clientno = h.clientno,
                                           !.tried_char = c]
               /\ h' = IF logging
                       THEN [h EXCEPT !.sent = Append(@, [status |-> st, tried_char |-> c])]
                       ELSE h
    /\ clt_sem' = clt_sem - 1
    /\ srv_sem' = srv_sem + 1
    /\ mb_phase' = "req"
    /\ mb_result' = NoResult
    /\ UNCHANGED <<ret_sem, srv_vars, cl, mb_owner>>

\* Lines 246-259: sem_wait(ret_sem) returns 0, the response is copied out,
\* sem_post(clt_sem).  With `logging` the response is recorded together with
\* the session as the dispatch left it.
H_Response(logging) ==
    /\ ret_sem > 0
    /\ mb_phase = "resp"
    /\ ret_sem' = ret_sem - 1
    /\ clt_sem' = clt_sem + 1
    /\ mb_phase' = "idle"
    /\ h' = [h EXCEPT !.clientno = shared.clientno,
                      !.tried = IF shared.tried_char \in Letters
                                THEN @ \cup {shared.tried_char}
                                ELSE IF shared.status = game_open THEN {} ELSE @,
                      !.seen = IF logging
                               THEN Append(@, [status |-> shared.status,
                                               word |-> shared.word,
                                               errors |-> shared.errors,
                                               session |-> clients[Lookup(shared.clientno)]])
                               ELSE @]
    /\ UNCHANGED <<shared, srv_sem, srv_vars, cl, mb_owner, mb_result>>

\* ------------------------------------------------------------ properties
\* A client holds the gate from a sem_wait(clt_sem) that returned 0 until
\* clt_sem is posted for it or the process ends.
Holds(c) == cl[c].pc \in {"gate", "wait_ret", "resp", "fr_gate"}

Holders == {c \in Clients : Holds(c)}

\* free_resources of the server has begun (end of the loop, or bail_out).
ShutdownBegun == s_exit # "none"

C2_NoReleaseBeforeResponse ==
    [][\A c \in Clients :
          (cl[c].pc = "wait_ret" /\ cl'[c].pc # "wait_ret") => clt_sem' <= clt_sem]_vars

\* The mailbox windows: a client is about to write (gate, fr_gate) or to read
\* (resp); the server reads and writes while it dispatches.
InWindow(c) == cl[c].pc \in {"gate", "fr_gate", "resp"}

\* C3: no two processes are in the mailbox at once, the server reads a request
\* only after it was written and signalled, a client reads a response only
\* after it was written and signalled.
C3_MailboxExclusive ==
    /\ \A c1, c2 \in Clients : (InWindow(c1) /\ InWindow(c2)) => c1 = c2
    /\ s_pc = "dispatch" => /\ \A c \in Clients : ~InWindow(c)
                            /\ mb_phase = "req"
    /\ \A c \in Clients : cl[c].pc = "resp" => mb_phase = "resp"

\* C4: whenever a client is about to copy a response out of the mailbox, the
\* mailbox holds the one response the server wrote for the request this client
\* wrote last.
C4_ResponseIsOwn ==
    \A c \in Clients :
        cl[c].pc = "resp" =>
            /\ mb_owner = c
            /\ mb_phase = "resp"
            /\ Lookup(shared.clientno) # 0
            /\ cl[c].clientno \in {-1, shared.clientno}

\* C5: with a single client, every response the client copies out is the
\* result the server computed by dispatching, once, the request the client
\* had just written: the client's copy equals the game of its session.
C5_SingleClientRoundTrip ==
    [][\A c \in Clients :
          (cl[c].pc = "resp" /\ cl'[c].pc # "resp") =>
              /\ mb_owner = c
              /\ mb_phase = "resp"
              /\ mb_result # NoResult
              /\ mb_result.game.init
              /\ cl'[c].clientno = mb_result.clientno
              /\ cl[c].clientno \in {-1, mb_result.clientno}
              /\ cl'[c].pc = "fr" =>
                     \/ mb_result.game.status = game_impossible
                     \/ mb_result.game.status = game_open /\ cl[c].caught_sig
              /\ cl'[c].pc # "fr" =>
                     /\ cl'[c].game_status = mb_result.game.status
                     /\ cl'[c].errors = mb_result.game.errors
                     /\ cl'[c].buf = mb_result.game.obscured
                     /\ cl'[c].game_status # game_impossible]_vars

C5_Witness ==
    /\ cl[1].pc = "prompt"
    /\ cl[1].game_status = game_won
    /\ cl[1].errors = 1
    /\ cl[1].buf = <<"B", "A">>

\* The steps that post or take clt_sem.
ClientReleases == \E c \in Clients : cl[c].pc = "resp" /\ cl'[c].pc # "resp"

ClientInterrupted == \E c \in Clients : cl[c].pc = "wait_ret" /\ cl'[c].pc = "fr"

ClientAcquires ==
    \E c \in Clients : \/ cl[c].pc = "want" /\ cl'[c].pc = "gate"
                       \/ cl[c].pc = "fr" /\ cl'[c].pc = "fr_gate"

TermDispatch == s_pc = "dispatch" /\ shared.terminate /\ s_pc' # s_pc

ShutdownPost == s_pc = "shutdown" /\ s_pc' = "shutdown" /\ Len(clients') = Len(clients) - 1

DepartureSteps(c) ==
    /\ (cl[c].pc = "fr" /\ cl'[c].pc = "fr_gate") =>
           /\ clt_sem' = clt_sem - 1
           /\ UNCHANGED <<shared, srv_sem, ret_sem>>
    /\ (cl[c].pc = "fr" /\ cl'[c].pc = "exited") =>
           UNCHANGED <<shared, srv_sem, clt_sem, ret_sem>>
    /\ cl[c].pc = "fr" => cl'[c].pc \in {"fr", "fr_gate", "exited"}
    /\ (cl[c].pc = "fr_gate" /\ cl'[c].pc # "fr_gate") =>
           /\ cl'[c].pc = "exited"
           /\ shared' = [shared EXCEPT !.terminate = TRUE, !.clientno = cl[c].clientno]
           /\ srv_sem' = srv_sem + 1
           /\ ret_sem' = ret_sem

\* C7 as stated: the departing client acquires the gate, writes terminate and
\* its clientno, posts srv_sem and posts clt_sem itself; it never waits on
\* ret_sem.
C7_DepartureReleasesGate ==
    [][\A c \in Clients :
          /\ DepartureSteps(c)
          /\ (cl[c].pc = "fr_gate" /\ cl'[c].pc # "fr_gate") => clt_sem' = clt_sem + 1]_vars

\* C7, amended: the departing client acquires the gate, writes terminate and
\* its clientno and posts srv_sem; it neither waits on ret_sem nor posts
\* clt_sem: it ends holding the gate, with clt_sem at 0 unless the server has
\* begun its shutdown.
C7_DepartureKeepsGate ==
    [][\A c \in Clients :
          /\ DepartureSteps(c)
          /\ (cl[c].pc = "fr_gate" /\ cl'[c].pc # "fr_gate") =>
                 /\ clt_sem' = clt_sem
                 /\ ~ShutdownBegun => clt_sem' = 0]_vars

C7_Witness ==
    /\ mb_phase = "req"
    /\ shared.terminate
    /\ ~ShutdownBegun
    /\ mb_owner # 0
    /\ cl[mb_owner].pc = "exited"
    /\ shared.clientno # -1
    /\ clt_sem = 0

\* The list without the sessions numbered n.
Without(list, n) == SelectSeq(list, LAMBDA x : x.clientno # n)

ResponseFieldsUnchanged ==
    /\ shared'.clientno = shared.clientno
    /\ shared'.status = shared.status
    /\ shared'.errors = shared.errors
    /\ shared'.word = shared.word

IdsFresh ==
    \A i \in 1..Len(clients) :
        /\ clients[i].clientno \in 0..(client_count - 1)
        /\ \A j \in 1..Len(clients) : clients[j].clientno = clients[i].clientno => j = i

Registration == s_pc = "dispatch" /\ shared.clientno = -1 /\ s_pc' = "loop"

\* C9: a request with clientno -1 gets a session whose number is client_count,
\* above every number given before; client_count never decreases, so the
\* numbers in the table are distinct and none is given twice.
C9_FreshIds ==
    [][/\ IdsFresh'
       /\ client_count' >= client_count
       /\ Registration =>
              /\ client_count' = client_count + 1
              /\ \A i \in 1..Len(clients) : clients[i].clientno < client_count
              /\ ~shared.terminate =>
                     /\ Len(clients') = Len(clients) + 1
                     /\ Head(clients').clientno = client_count
                     /\ shared'.clientno = client_count]_vars

C9_Witness ==
    /\ client_count = 3
    /\ Len(clients) = 1
    /\ clients[1].clientno = 2

UnknownClient ==
    /\ s_pc = "dispatch"
    /\ shared.clientno # -1
    /\ Lookup(shared.clientno) = 0
    /\ s_pc' # s_pc

\* C10: a dispatch for a clientno that is neither -1 nor in the list changes
\* no session and begins the shutdown with exit status failure; the shutdown
\* then runs to its end: terminate stays set and the server ends by exit.
C10_UnknownClientIsFatal ==
    [][/\ UnknownClient =>
              /\ clients' = clients
              /\ s_pc' = "shutdown"
              /\ s_exit' = "failure"
              /\ shared'.terminate
       /\ s_exit = "failure" =>
              /\ s_pc' \in {"shutdown", "exited"}
              /\ s_exit' = "failure"
              /\ shared'.terminate]_vars

\* The session a dispatch works on (cur, hangman-server.c:379-396) and what
\* the dispatch leaves of it.
SessionOf(list, n) == list[CHOOSE i \in 1..Len(list) : list[i].clientno = n]

Before == IF shared.clientno = -1 THEN NewClient ELSE SessionOf(clients, shared.clientno)

After == SessionOf(clients', shared'.clientno)

\* A dispatch of a request that ran to its sem_post(ret_sem).
Dispatched == s_pc = "dispatch" /\ ~shared.terminate /\ ret_sem' = ret_sem + 1

NewDispatch == Dispatched /\ shared.status = game_new

GuessDispatch == Dispatched /\ shared.status # game_new

\* C11: a New request that finds gamecnt >= wordcnt is answered Impossible,
\* takes no word from the session's list and leaves gamecnt and the rest of
\* the game as they are; gamecnt never decreases and never exceeds wordcnt,
\* so from gamecnt = wordcnt on every New request is answered Impossible.
C11_ExhaustedIsImpossible ==
    [][/\ (NewDispatch /\ Before.gamecnt >= wordcnt) =>
              /\ shared'.status = game_impossible
              /\ After = [Before EXCEPT !.current_game.status = game_impossible]
       /\ (NewDispatch /\ Before.gamecnt < wordcnt) => shared'.status = game_open
       /\ \A i \in 1..Len(clients') :
              /\ clients'[i].gamecnt <= wordcnt
              /\ \A j \in 1..Len(clients) :
                     clients[j].clientno = clients'[i].clientno =>
                         clients'[i].gamecnt >= clients[j].gamecnt]_vars

C11_Witness ==
    /\ mb_phase = "resp"
    /\ shared.status = game_impossible
    /\ Len(clients) = 1
    /\ clients[1].gamecnt = 2
    /\ wordcnt = 2
    /\ clients[1].words = <<>>
    /\ clients[1].current_game.errors = 1

\* The requests of the record that drew a word: New, answered Open.
DrawnAt == {k \in 1..Len(h.seen) :
               h.sent[k].status = game_new /\ h.seen[k].status = game_open}

Count(seq, w) == Cardinality({i \in 1..Len(seq) : seq[i] = w})

\* C12: the secrets a session has drawn so far and the words left in its
\* list make up the dictionary, entry for entry: no entry is drawn twice, and
\* each draw takes the drawn entry out of the session's list.
C12_NoWordTwice ==
    Len(h.seen) > 0 =>
        LET last == h.seen[Len(h.seen)].session
            secret(k) == h.seen[k].session.current_game.secret
        IN  /\ last.gamecnt = Cardinality(DrawnAt)
            /\ Len(last.words) = wordcnt - Cardinality(DrawnAt)
            /\ \A i \in 1..wordcnt :
                   Cardinality({k \in DrawnAt : secret(k) = words[i]})
                       + Count(last.words, words[i]) = Count(words, words[i])
            /\ \A k \in DrawnAt : \E i \in 1..wordcnt : secret(k) = words[i]

C12_Witness ==
    /\ Cardinality(DrawnAt) = 3
    /\ wordcnt = 3
    /\ h.seen[Len(h.seen)].session.words = <<>>
    /\ h.seen[1].session.current_game.secret = <<"A">>
    /\ h.seen[Len(h.seen)].session.current_game.secret = <<"A">>

\* C13: a dispatch leaves a game Lost that was not Lost before exactly when
\* it is a guess that takes the error count from at most MAX_ERROR to above
\* it; the count is then MAX_ERROR + 1 and the obscured buffer, in the
\* session and in the mailbox, is the secret.
C13_LostAtFirstExcess ==
    [][Dispatched =>
          LET b == Before.current_game
              a == After.current_game
              lost == b.status # game_lost /\ a.status = game_lost
              exceeds == b.errors <= MAX_ERROR /\ a.errors > MAX_ERROR
          IN  /\ lost <=> (GuessDispatch /\ exceeds)
              /\ lost => /\ a.errors = MAX_ERROR + 1
                         /\ b.errors = MAX_ERROR
                         /\ a.obscured = a.secret
                         /\ a.secret = b.secret
                         /\ shared'.status = game_lost
                         /\ shared'.word = a.secret
                         /\ shared'.errors = MAX_ERROR + 1
              /\ a.status = game_lost => lost]_vars

C13_Witness ==
    /\ mb_phase = "resp"
    /\ shared.status = game_lost
    /\ shared.word = <<"A", "B">>
    /\ shared.errors = MAX_ERROR + 1
    /\ clients[1].current_game.obscured = <<"A", "B">>

\* Every position of the game is unmasked once `try` has been looked for: it
\* holds `try` or its place in the buffer is no longer '_'.
AllUnmasked(g, try) ==
    \A i \in 1..Len(g.secret) : g.secret[i] = try \/ g.obscured[i] # "_"

\* C14: a guess after which every position is unmasked leaves the game Won
\* with the error count it had, whatever the letter, the count and the status
\* before; so a game whose buffer holds no '_' stays as it is, Won, under
\* every further guess.
C14_WinFirst ==
    [][GuessDispatch =>
          LET b == Before.current_game
              a == After.current_game
          IN  /\ AllUnmasked(b, shared.tried_char) =>
                     /\ a.status = game_won
                     /\ a.errors = b.errors
                     /\ a.secret = b.secret
                     /\ \A i \in 1..Len(a.secret) :
                            a.obscured[i] = IF a.secret[i] = shared.tried_char
                                            THEN a.secret[i] ELSE b.obscured[i]
                     /\ shared'.status = game_won
                     /\ shared'.errors = b.errors
              /\ (b.status = game_won /\ \A i \in 1..Len(b.secret) : b.obscured[i] # "_") =>
                     a = b
              /\ a.status = game_won => AllUnmasked(b, shared.tried_char)]_vars

C14_Witness ==
    /\ mb_phase = "resp"
    /\ shared.status = game_won
    /\ shared.tried_char = "Z"
    /\ shared.errors = MAX_ERROR + 1
    /\ clients[1].current_game.status = game_won
    /\ clients[1].current_game.secret = <<"A", " ", "A">>

LettersOf(secret) == {secret[i] : i \in 1..Len(secret)}

\* The m requests recorded after request k are guesses of m different
\* letters of `secret`, and all of them were answered.
CorrectGuesses(k, m, secret) ==
    /\ k + m <= Len(h.seen)
    /\ \A j \in 1..m : /\ h.sent[k + j].status # game_new
                        /\ h.sent[k + j].tried_char \in LettersOf(secret)
    /\ \A i, j \in 1..m : h.sent[k + i].tried_char = h.sent[k + j].tried_char => i = j

CatRequests == <<"New", "C", "Z", "A", "T", "New">>

CatResponses ==
    << [status |-> game_open, word |-> <<"_", "_", "_">>, errors |-> 0],
       [status |-> game_open, word |-> <<"C", "_", "_">>, errors |-> 0],
       [status |-> game_open, word |-> <<"C", "_", "_">>, errors |-> 1],
       [status |-> game_open, word |-> <<"C", "A", "_">>, errors |-> 1],
       [status |-> game_won, word |-> <<"C", "A", "T">>, errors |-> 1] >>

\* The first n requests of the record are the first n of the scenario.
CatSent(n) ==
    /\ words = << <<"C", "A", "T">> >>
    /\ n <= Len(h.sent)
    /\ \A k \in 1..n :
           IF CatRequests[k] = "New"
           THEN h.sent[k].status = game_new
           ELSE h.sent[k].status # game_new /\ h.sent[k].tried_char = CatRequests[k]

\* C16: with the dictionary CAT, the player that sends New, 'C', 'Z', 'A',
\* 'T', New sees Open "___" 0, Open "C__" 0, Open "C__" 1, Open "CA_" 1,
\* Won "CAT" 1 and at last status Impossible.
C16_CatScenario ==
    \A n \in 1..Len(h.seen) :
        (n <= 6 /\ CatSent(n)) =>
            IF n <= 5
            THEN /\ h.seen[n].status = CatResponses[n].status
                 /\ h.seen[n].word = CatResponses[n].word
                 /\ h.seen[n].errors = CatResponses[n].errors
            ELSE h.seen[n].status = game_impossible

C16_Witness ==
    /\ CatSent(6)
    /\ Len(h.seen) = 6
    /\ h.seen[5].status = game_won
    /\ h.seen[6].status = game_impossible

\* C17 as stated: the error count of every session's game and the one in the
\* mailbox are at most MAX_ERROR.
C17_ErrorsAtMostMax ==
    /\ shared.errors <= MAX_ERROR
    /\ \A i \in 1..Len(clients) : clients[i].current_game.errors <= MAX_ERROR

\* C17, amended: the error count of every session's game and the one in the
\* mailbox are at most MAX_ERROR + 1; the count of an Open game, and the one
\* of a response with status Open, is at most MAX_ERROR, and a game with
\* MAX_ERROR + 1 errors was lost: its buffer is its secret.
C17_ErrorsAtMostMaxPlusOne ==
    /\ shared.errors <= MAX_ERROR + 1
    /\ (mb_phase = "resp" /\ shared.status = game_open) => shared.errors <= MAX_ERROR
    /\ \A i \in 1..Len(clients) :
           LET g == clients[i].current_game
           IN  /\ g.errors <= MAX_ERROR + 1
               /\ g.status = game_open => g.errors <= MAX_ERROR
               /\ g.errors = MAX_ERROR + 1 =>
                      /\ g.status \in {game_lost, game_won, game_impossible}
                      /\ g.obscured = g.secret

C17_Witness ==
    /\ mb_phase = "resp"
    /\ shared.errors = MAX_ERROR + 1
    /\ shared.status = game_impossible
    /\ clients[1].current_game.errors = MAX_ERROR + 1

\* A client writes its request (hangman-client.c:236-240).
ClientWrites(c) == cl[c].pc = "gate" /\ cl'[c].pc = "wait_ret"

C19_TerminateSeenExits ==
    [][\A c \in Clients :
          (cl[c].pc = "gate" /\ cl'[c].pc # "gate") =>
              IF shared.terminate
              THEN /\ cl'[c].pc = "exited"
                   /\ cl'[c].exit = "failure"
                   /\ UNCHANGED <<shared, srv_sem, clt_sem, ret_sem>>
              ELSE /\ cl'[c].pc = "wait_ret"
                   /\ srv_sem' = srv_sem + 1]_vars

\* Client 1 has ended with failure while the server is in its shutdown, and
\* no game was ever finished, so no client has been at the prompt.
C19_Witness ==
    /\ s_pc = "shutdown"
    /\ shared.terminate
    /\ cl[1].pc = "exited"
    /\ cl[1].exit = "failure"
    /\ Len(clients) = 2
    /\ \A i \in 1..2 : /\ clients[i].gamecnt = 1
                        /\ clients[i].current_game.status = game_open
    /\ client_count = 2

\* C20: the step that begins the server's shutdown sets terminate and posts
\* nothing; from then on terminate stays set, every pass of the shutdown
\* removes the first remaining session and posts the gate once, and the
\* shutdown ends by exit only when no session is left.
C20_ShutdownPostsOncePerSession ==
    [][/\ (~ShutdownBegun /\ ShutdownBegun') =>
              /\ shared'.terminate
              /\ s_pc' = "shutdown"
              /\ clt_sem' = clt_sem
       /\ ShutdownBegun => shared.terminate /\ shared'.terminate
       /\ (s_pc = "shutdown" /\ clients' # clients) =>
              /\ clients' = Tail(clients)
              /\ clt_sem' = clt_sem + 1
              /\ s_pc' = "shutdown"
       /\ (s_pc = "shutdown" /\ s_pc' # "shutdown") =>
              /\ clients = <<>>
              /\ s_pc' = "exited"
       /\ (s_pc = "shutdown" /\ clt_sem' > clt_sem /\ UNCHANGED cl) =>
              Len(clients') = Len(clients) - 1]_vars

Matches(g, try) == {i \in 1..Len(g.secret) : g.secret[i] = try}

\* C26 as stated: a guess leaves `try` at every position where the secret
\* holds it and every other position of the obscured buffer as it was; the
\* error count changes only on a guess that matches no position, and then by
\* one; a guess that matches a position leaves the count as it was.
C26_GuessUnmasksOnlyMatches ==
    [][GuessDispatch =>
          LET b == Before.current_game
              a == After.current_game
              try == shared.tried_char
          IN  /\ a.secret = b.secret
              /\ \A i \in 1..Len(b.secret) :
                     a.obscured[i] = IF i \in Matches(b, try) THEN try ELSE b.obscured[i]
              /\ a.errors # b.errors => Matches(b, try) = {} /\ a.errors = b.errors + 1
              /\ Matches(b, try) # {} => a.errors = b.errors]_vars

\* C26: the same, except that the miss that takes the error count above
\* MAX_ERROR replaces the obscured buffer by the secret; the count goes up,
\* by one, exactly on a guess that matches no position and leaves some
\* position masked.
C26_GuessUnmasksMatchesOrReveals ==
    [][GuessDispatch =>
          LET b == Before.current_game
              a == After.current_game
              try == shared.tried_char
              miss == Matches(b, try) = {} /\ ~AllUnmasked(b, try)
          IN  /\ a.secret = b.secret
              /\ Len(a.obscured) = Len(b.secret)
              /\ IF miss /\ b.errors + 1 > MAX_ERROR
                 THEN a.obscured = b.secret
                 ELSE \A i \in 1..Len(b.secret) :
                          a.obscured[i] = IF i \in Matches(b, try) THEN try ELSE b.obscured[i]
              /\ a.errors = IF miss THEN b.errors + 1 ELSE b.errors
              /\ a.errors # b.errors => Matches(b, try) = {} /\ a.errors = b.errors + 1
              /\ Matches(b, try) # {} => a.errors = b.errors
              /\ shared'.word = a.obscured
              /\ shared'.errors = a.errors]_vars

\* A guess of A after a miss was answered: A is unmasked, B is not, and the
\* error count is still 1.
C26_Witness ==
    /\ mb_phase = "resp"
    /\ shared.tried_char = "A"
    /\ shared.status = game_open
    /\ shared.word = <<"A", "_">>
    /\ shared.errors = 1
    /\ clients[1].current_game.secret = <<"A", "B">>

\* The obscured buffer of game g shows exactly the spaces of the secret and
\* the letters of `tried`.
ShowsExactly(g, tried) ==
    /\ Len(g.obscured) = Len(g.secret)
    /\ \A i \in 1..Len(g.secret) :
           g.obscured[i] = IF g.secret[i] = " " \/ g.secret[i] \in tried
                           THEN g.secret[i] ELSE "_"

\* C27: whenever the player has taken a response and its game is Open or
\* Won, the obscured buffer has the secret's length and shows exactly the
\* spaces and the letters guessed in this game; and a guess never puts '_'
\* back at a position that was unmasked.
C27_ObscuredShowsGuessed ==
    [][/\ (mb_phase' = "idle" /\ Len(clients') = 1
           /\ clients'[1].current_game.status \in {game_open, game_won}) =>
              ShowsExactly(clients'[1].current_game, h'.tried)
       /\ GuessDispatch =>
              \A i \in 1..Len(Before.current_game.secret) :
                  Before.current_game.obscured[i] # "_" =>
                      After.current_game.obscured[i] = Before.current_game.obscured[i]]_vars

C24_SecondServerFails ==
    [][\A i \in Servers :
          (boot.inst[i].late /\ boot.inst[i].pc = "check" /\ boot'.inst[i].pc = "loop") =>
              Serving = {}]_vars

\* The steps of the client's status: from New to Open or Impossible, from
\* Open to Open, Won or Lost.
StatusStep(a, b) ==
    \/ a = game_new /\ b \in {game_open, game_impossible}
    \/ a = game_open /\ b \in {game_open, game_won, game_lost}

\* C28: the status a client copies out of a response is a step from the
\* status it sent; after Open it goes on in the loop, after Won or Lost to
\* the prompt, after Impossible out of the loop; from the prompt it goes on
\* only with status New, no letter tried and no error; and once it has left
\* the loop it sends nothing but its departure.
C28_ClientStatusSteps ==
    [][\A c \in Clients :
          /\ (cl[c].pc = "resp" /\ cl'[c].pc # "resp") =>
                 /\ StatusStep(cl[c].game_status, shared.status)
                 /\ shared.status = game_open => cl'[c].pc \in {"input", "fr"}
                 /\ shared.status \in {game_won, game_lost} => cl'[c].pc = "prompt"
                 /\ shared.status = game_impossible => cl'[c].pc = "fr"
                 /\ cl'[c].pc \notin {"fr", "exited"} => cl'[c].game_status = shared.status
          /\ (cl[c].pc = "prompt" /\ cl'[c].pc \notin {"prompt", "fr", "exited"}) =>
                 /\ cl[c].game_status \in {game_won, game_lost}
                 /\ cl'[c].pc = "want"
                 /\ cl'[c].game_status = game_new
                 /\ cl'[c].tried_chars = {}
                 /\ cl'[c].errors = 0
          /\ cl[c].pc \in {"fr", "fr_gate", "exited"} =>
                 /\ cl'[c].pc \in {"fr", "fr_gate", "exited"}
                 /\ cl'[c] # cl[c] => shared'.status = shared.status]_vars

\* C29: a step at "Your guess?" touches neither the mailbox nor a semaphore;
\* it leads on to the request only if the line is one character, a letter,
\* whose upper case is not among the letters tried in this round, and that
\* letter is then recorded; the guess a client writes is the letter so
\* recorded, and it has not sent that letter before in this game.
C29_GuessOnlyNewLetter ==
    [][\A c \in Clients :
          /\ (cl[c].pc = "input" /\ cl'[c] # cl[c]) =>
                 UNCHANGED <<shared, srv_sem, clt_sem, ret_sem>>
          /\ (cl[c].pc = "input" /\ cl'[c].pc = "want") =>
                 /\ Len(cl'[c].buf) = 1
                 /\ isalpha(cl'[c].buf[1])
                 /\ cl'[c].c = toupper(cl'[c].buf[1])
                 /\ cl'[c].c \notin cl[c].tried_chars
                 /\ cl'[c].tried_chars = cl[c].tried_chars \cup {cl'[c].c}
          /\ (cl[c].pc = "input" /\ cl'[c].pc = "input") =>
                 cl'[c].tried_chars = cl[c].tried_chars
          /\ (ClientWrites(c) /\ cl[c].game_status = game_open) =>
                 /\ shared'.tried_char = cl[c].c
                 /\ cl[c].c \in cl[c].tried_chars
                 /\ cl[c].c \notin cl[c].sent]_vars

\* The player has typed a lower-case a again after the guess A was answered:
\* the client is still at "Your guess?" and the gate is free.
C29_Witness ==
    /\ cl[1].pc = "input"
    /\ cl[1].buf = <<"a">>
    /\ cl[1].c = "A"
    /\ cl[1].sent = {"A"}
    /\ cl[1].tried_chars = {"A"}
    /\ clt_sem = 1
    /\ mb_phase = "resp"
    /\ shared.tried_char = "A"

\* C30: a process that comes out of a semaphore wait of its loop without
\* the semaphore was interrupted by a signal its handler caught: its flag is
\* set, it is not on the way to a failure exit, and the loop test that follows
\* leads to the shutdown path with status success; a loop test that finds the
\* flag unset leads back to the wait.
C30_InterruptedWaitNotFatal ==
    [][/\ (s_pc = "wait" /\ s_pc' # "wait") =>
              /\ s_pc' \in {"dispatch", "loop"}
              /\ s_pc' = "loop" => (s_caught_sig' /\ s_exit' = "none" /\ UNCHANGED srv_sem)
       /\ (s_pc = "loop" /\ s_pc' # "loop") =>
              IF s_caught_sig
              THEN s_pc' = "shutdown" /\ s_exit' = "success"
              ELSE s_pc' = "wait"
       /\ \A c \in Clients :
              /\ (cl[c].pc = "want" /\ cl'[c].pc # "want") =>
                     \/ cl'[c].pc = "gate" /\ clt_sem' = clt_sem - 1
                     \/ cl'[c].pc = "fr" /\ cl'[c].exit = "success" /\ UNCHANGED clt_sem
              /\ (cl[c].pc = "wait_ret" /\ cl'[c].pc # "wait_ret") =>
                     \/ cl'[c].pc = "resp" /\ ret_sem' = ret_sem - 1
                     \/ cl'[c].pc = "fr" /\ cl'[c].exit = "success" /\ UNCHANGED ret_sem]_vars

\* Client 1 was interrupted while it waited for the answer to a request the
\* server has not taken yet, and is on its way out with status success; the
\* server's own wait was interrupted or its flag set, and it is at its loop test.
C30_Witness ==
    /\ cl[1].pc = "fr"
    /\ cl[1].exit = "success"
    /\ mb_phase = "req"
    /\ mb_owner = 1
    /\ ~shared.terminate
    /\ srv_sem = 1
    /\ s_pc = "loop"
    /\ s_caught_sig

\* C31: a client that has left its loop for free_resources does not stay
\* there waiting for the gate: it ends, with or without the departure notice.
C31_DepartureNeverBlocks ==
    \A c \in Clients : (cl[c].pc = "fr") ~> (cl[c].pc = "exited")

\* C32: until the server begins its shutdown the gate semaphore is 0 or 1.
C32_GateBinary == ~ShutdownBegun => clt_sem \in {0, 1}

\* Client 1 was interrupted while it waited for its answer and has gone; the
\* request it left behind is still pending, the gate is free again and
\* client 2 is about to ask for it.
C32_Witness ==
    /\ ~ShutdownBegun
    /\ clt_sem = 1
    /\ srv_sem = 1
    /\ cl[1].pc = "exited"
    /\ cl[1].exit = "success"
    /\ ~shared.terminate
    /\ s_pc = "loop"
    /\ cl[2].pc = "want"

\* C33: request-pending and response-ready are never above 1, and a
\* response-ready post stands only while a client waits for its response.
C33_OneRequestOneResponse ==
    /\ srv_sem <= 1
    /\ ret_sem <= 1
    /\ ret_sem = 1 => \E c \in Clients : cl[c].pc = "wait_ret"

\* C34: no dispatch finds a clientno without a session, and the session a
\* departure notice removes belongs to no client that is still running.
C34_SessionLookupNeverFails ==
    [][/\ ~UnknownClient
       /\ (TermDispatch /\ shared.clientno # -1 /\ Len(clients') < Len(clients)) =>
              \A c \in Clients : cl[c].pc # "exited" => cl[c].clientno # shared.clientno]_vars

\* C35: until the server begins its shutdown, a client that has taken the
\* gate finds terminate unset at its check.
C35_NoTerminateSeenBeforeShutdown ==
    [][\A c \in Clients :
          (cl[c].pc = "gate" /\ cl'[c].pc # "gate" /\ ~ShutdownBegun) =>
              ~shared.terminate]_vars

\* Client 1 has left with a departure notice and the server has removed its
\* session; client 2 has since taken the gate, passed the check and sent its
\* first request.
C35_Witness ==
    /\ ~ShutdownBegun
    /\ cl[1].pc = "exited"
    /\ cl[1].exit = "success"
    /\ client_count = 1
    /\ clients = <<>>
    /\ cl[2].pc = "wait_ret"
    /\ ~cl[2].caught_sig
    /\ mb_owner = 2
    /\ mb_phase = "req"
    /\ srv_sem = 1
    /\ ~shared.terminate

\* C36: with no signal, a client that waits for the gate gets it in the end,
\* and a client that waits for its response gets it and gives the gate back.
C36_GateAndResponseInTheEnd ==
    \A c \in Clients :
        /\ (cl[c].pc = "want") ~> (cl[c].pc = "gate")
        /\ (cl[c].pc = "wait_ret") ~> (cl[c].pc \notin {"wait_ret", "resp"})

\* The clientno values of the sessions of a list.
IdsOf(list) == {list[i].clientno : i \in 1..Len(list)}

\* C37: a dispatch of a New or guess request leaves the master word list and
\* every session but the requester's as they were; the requester is the
\* clientno of the request, or the number just assigned when that is -1.
C37_DispatchChangesOnlyRequester ==
    [][Dispatched =>
          LET X == IF shared.clientno = -1 THEN client_count ELSE shared.clientno
          IN  /\ words' = words
              /\ words_tail' = words_tail
              /\ IdsOf(clients') = IdsOf(clients) \cup {X}
              /\ \A n \in IdsOf(clients) \ {X} :
                     SessionOf(clients', n) = SessionOf(clients, n)]_vars

\* The server has just answered a guess of the second client registered, which
\* won its game, while the first client's game is open with its word drawn.
C37_Witness ==
    /\ Len(clients) = 2
    /\ mb_phase = "resp"
    /\ mb_result.clientno = clients[1].clientno
    /\ clients[1].current_game.status = game_won
    /\ clients[2].current_game.status = game_open
    /\ clients[2].gamecnt = 1
    /\ clients[2].words = <<>>
    /\ words = Pool

\* C38: when a server process that was started while another was in its loop
\* gives up because its sem_open failed, and a server process is in its loop
\* then, the terminate flag of the mailbox that process serves and the four
\* names stay as they were.
C38_FailedStartLeavesSystem ==
    [][\A i \in Servers :
          (/\ boot.inst[i].pc = "check"
           /\ boot.inst[i].late
           /\ boot.inst[i].failed
           /\ boot'.inst[i].pc = "exited"
           /\ Serving # {}) =>
              /\ boot'.names = boot.names
              /\ \A j \in Serving :
                     boot'.term[boot.inst[j].shm] = boot.term[boot.inst[j].shm]]_vars

\* C39: a guess dispatched for a game that is Lost leaves it Lost.
C39_LostIsAbsorbing ==
    [][(GuessDispatch /\ Before.current_game.init
                      /\ Before.current_game.status = game_lost) =>
          After.current_game.status = game_lost]_vars

\* What load_words is to make of a line: the letters and spaces, upper-cased.
RECURSIVE Cleaned(_)
Cleaned(line) ==
    IF line = <<>> THEN <<>>
    ELSE IF Kept(Head(line)) THEN <<toupper(Head(line))>> \o Cleaned(Tail(line))
    ELSE Cleaned(Tail(line))

\* The entries load_words is to return for the lines of an input.
RECURSIVE Loaded(_)
Loaded(input) ==
    IF input = <<>> THEN <<>>
    ELSE IF Head(input) = <<>> THEN Loaded(Tail(input))
    ELSE <<Cleaned(Head(input))>> \o Loaded(Tail(input))

\* C40: wordlist_read comes to its end on every input, and the list it has
\* built then holds, in input order, the cleaned form of every non-blank
\* line, with *n their number.
C40_LoadWordsEveryLine ==
    /\ rd.pc \in {"read", "done"}
    /\ rd.pc = "done" => (rd.out = Loaded(rd.input) /\ rd.n = Len(Loaded(rd.input)))

\* Both client processes, each with a session, are blocked in
\* sem_wait(clt_sem) and the server has set terminate in its shutdown.
BlockedPair ==
    /\ s_pc = "shutdown"
    /\ shared.terminate
    /\ clt_sem = 0
    /\ \A c \in Clients : cl[c].pc = "want" /\ cl[c].clientno # -1

\* C21: once the server has set terminate in its shutdown while both client
\* processes, each with a session, are blocked in sem_wait(clt_sem), both
\* clients eventually end with exit status failure.
C21_BlockedPairExits ==
    BlockedPair ~> (\A c \in Clients : cl[c].pc = "exited" /\ cl[c].exit = "failure")

\* C22: a client that waits in sem_wait(ret_sem) when the server's shutdown
\* begins ends eventually.
C22_BlockedOnResponseExits ==
    \A c \in Clients :
        (s_pc = "shutdown" /\ cl[c].pc = "wait_ret") ~> (cl[c].pc = "exited")

\* ------------------------------------------------------------------ Spec
Next ==
    \/ \E c \in Clients : C_Input(c)
    \/ \E c \in Clients : C_Acquire(c)
    \/ \E c \in Clients : C_Send(c)
    \/ \E c \in Clients : C_WaitRet(c)
    \/ \E c \in Clients : C_Release(c)
    \/ \E c \in Clients : C_Prompt(c)
    \/ \E c \in Clients : C_Signal(c)
    \/ \E c \in Clients : C_FrAcquire(c)
    \/ \E c \in Clients : C_FrNotify(c)
    \/ S_Loop
    \/ S_Wait
    \/ S_Signal
    \/ S_Dispatch
    \/ S_FreeOne
    \/ S_Exit

Spec == Init /\ [][Next]_vars

SpecSingle == InitSingle /\ [][Next]_vars

\* One client alone with the server, its player typing whole lines.
NextInput ==
    \/ \E c \in Clients : C_Type(c)
    \/ \E c \in Clients : C_Acquire(c)
    \/ \E c \in Clients : C_Send(c)
    \/ \E c \in Clients : C_WaitRet(c)
    \/ \E c \in Clients : C_Release(c)
    \/ \E c \in Clients : C_Prompt(c)
    \/ \E c \in Clients : C_Signal(c)
    \/ \E c \in Clients : C_FrAcquire(c)
    \/ \E c \in Clients : C_FrNotify(c)
    \/ S_Loop
    \/ S_Wait
    \/ S_Signal
    \/ S_Dispatch
    \/ S_FreeOne
    \/ S_Exit

SpecInput == InitSingle /\ [][NextInput]_vars

\* The game functions driven through the mailbox by the harness.
InitGame == InitWith({}, PoolsGame) /\ boot = BootRunning /\ rd = RdDone

NextGame ==
    \/ H_Request(FALSE)
    \/ S_Loop
    \/ S_Wait
    \/ S_Dispatch
    \/ H_Response(FALSE)

SpecGame == InitGame /\ [][NextGame]_vars

InitScript == InitWith({}, PoolsScript) /\ boot = BootRunning /\ rd = RdDone

NextScript ==
    \/ H_Request(TRUE)
    \/ S_Loop
    \/ S_Wait
    \/ S_Dispatch
    \/ H_Response(TRUE)

SpecScript == InitScript /\ [][NextScript]_vars

\* The two clients, a third player (the harness, which asks for its first
\* game and then leaves its terminal alone) and the server, none of the
\* clients signalled.  Whatever does not wait for the terminal or for a
\* signal is scheduled in the end: a process that can run does run.
NextShutdown ==
    \/ \E c \in Clients : C_Input(c)
    \/ \E c \in Clients : C_Acquire(c)
    \/ \E c \in Clients : C_Send(c)
    \/ \E c \in Clients : C_WaitRet(c)
    \/ \E c \in Clients : C_Release(c)
    \/ \E c \in Clients : C_Prompt(c)
    \/ \E c \in Clients : C_FrAcquire(c)
    \/ \E c \in Clients : C_FrNotify(c)
    \/ (h.clientno = -1 /\ H_Request(FALSE))
    \/ H_Response(FALSE)
    \/ S_Loop
    \/ S_Wait
    \/ S_Signal
    \/ S_Dispatch
    \/ S_FreeOne
    \/ S_Exit

FairShutdown ==
    /\ \A c \in Clients :
           /\ WF_vars(C_Acquire(c))
           /\ WF_vars(C_Send(c))
           /\ WF_vars(C_WaitRet(c))
           /\ WF_vars(C_Release(c))
           /\ WF_vars(C_FrAcquire(c))
           /\ WF_vars(C_FrNotify(c))
    /\ WF_vars(H_Response(FALSE))
    /\ WF_vars(S_Loop)
    /\ WF_vars(S_Wait)
    /\ WF_vars(S_Dispatch)
    /\ WF_vars(S_FreeOne)
    /\ WF_vars(S_Exit)

SpecShutdown == Init /\ [][NextShutdown]_vars /\ FairShutdown

\* The play of Spec, signals included, with every process that can run
\* scheduled in the end; the terminal and the signals are left to happen or not.
FairPlay ==
    /\ \A c \in Clients :
           /\ WF_vars(C_Acquire(c))
           /\ WF_vars(C_Send(c))
           /\ WF_vars(C_WaitRet(c))
           /\ WF_vars(C_Release(c))
           /\ WF_vars(C_FrAcquire(c))
           /\ WF_vars(C_FrNotify(c))
    /\ WF_vars(S_Loop)
    /\ WF_vars(S_Wait)
    /\ WF_vars(S_Dispatch)
    /\ WF_vars(S_FreeOne)
    /\ WF_vars(S_Exit)

SpecUnwind == Init /\ [][Next]_vars /\ FairPlay

\* The clients and the server with no signal delivered to any of them.  A
\* process that can run does run, and a client that finds the gate free again
\* and again gets it in the end; the players answer or not as they please.
NextQuiet ==
    \/ \E c \in Clients : C_Input(c)
    \/ \E c \in Clients : C_Acquire(c)
    \/ \E c \in Clients : C_Send(c)
    \/ \E c \in Clients : C_WaitRet(c)
    \/ \E c \in Clients : C_Release(c)
    \/ \E c \in Clients : C_Prompt(c)
    \/ \E c \in Clients : C_FrAcquire(c)
    \/ \E c \in Clients : C_FrNotify(c)
    \/ S_Loop
    \/ S_Wait
    \/ S_Dispatch

FairQuiet ==
    /\ \A c \in Clients :
           /\ SF_vars(C_Acquire(c))
           /\ WF_vars(C_Send(c))
           /\ WF_vars(C_WaitRet(c))
           /\ WF_vars(C_Release(c))
           /\ SF_vars(C_FrAcquire(c))
           /\ WF_vars(C_FrNotify(c))
    /\ WF_vars(S_Loop)
    /\ WF_vars(S_Wait)
    /\ WF_vars(S_Dispatch)

SpecQuiet == Init /\ [][NextQuiet]_vars /\ FairQuiet

\* wordlist_read alone, on every input of up to MaxLines lines.
InitWords ==
    /\ InitWith({}, {Pool})
    /\ boot = BootInit
    /\ rd \in {RdStart(d) : d \in DictsUpTo(MaxLines)}

NextWords == W_Line \/ W_Eof

SpecWords == InitWords /\ [][NextWords]_vars

\* Server processes started one after another or at once on the same names;
\* the play itself is left out.
InitStartup ==
    /\ InitWith({}, {Pool})
    /\ boot = BootInit
    /\ rd = RdDone

NextStartup ==
    \/ \E i \in Servers : B_ShmOpen(i)
    \/ \E i \in Servers : B_SemOpen(i)
    \/ \E i \in Servers : B_Check(i)
    \/ \E i \in Servers : B_Stop(i)

SpecStartup == InitStartup /\ [][NextStartup]_vars

====
